---- MODULE Spec2Model ----
(***************************************************************************)
(* golem/model.py: the schema-version gate of Database (create_database,   *)
(* the user_version marker, open and close of the shared peewee handle)    *)
(* and the column codecs BigIntegerField and EnumField.                    *)
(***************************************************************************)
EXTENDS Integers, Sequences, FiniteSets, TLC

\* ----------------------------------------------------------------- bounds
\* Rows the whole store holds at one time.
MaxRows == 1
\* Connections one process opens before it stops opening new ones.
MaxConns == 2
\* Bits of the ints the codecs are exercised with, besides the big ones.
MaxBits == 6
\* Characters of the strings a column is read with.
MaxChars == 2

\* ------------------------------------------------------ program constants
\* Database.SCHEMA_VERSION
SCHEMA_VERSION == 5

\* The list `tables` of create_database, in the order of the source.
tables ==
  << "Account", "ExpectedIncome", "GlobalRank", "HardwarePreset", "Income",
     "KnownHosts", "LocalRank", "NeighbourLocRank", "Payment",
     "ReceivedPayment", "Stats", "TaskPreset" >>

TableNames == { tables[k] : k \in 1..Len(tables) }

RowIds == 1..MaxRows

\* Values PRAGMA user_version may hold when the process starts: the default 0,
\* the previous release, this release, a later release.
StoredVersions == { 0, SCHEMA_VERSION - 1, SCHEMA_VERSION, SCHEMA_VERSION + 1 }

VARIABLES
  user_version,  \* PRAGMA user_version of the database file
  present,       \* the managed tables that exist in the file
  madeBy,        \* per table: SCHEMA_VERSION of the code that created it (0: none)
  rows,          \* per table: the rows it holds
  deferred,      \* db.database is None (db.init not called yet)
  closed,        \* db.is_closed()
  conn,          \* identity of the connection db holds (0: never connected)
  handles,       \* Database objects whose __init__ has returned
  pc,            \* position of the calling thread
  caller,        \* who called create_database: "init" or "static"
  version,       \* local `version` of create_database
  i,             \* position of drop_tables / create_tables in `tables`
  entry,         \* the store as create_database found it on entry
  last,          \* the call that ended last: operation, the exception it
                 \* raised ("none": it returned), what is_closed() told close()
  field,         \* the column type whose codec is exercised ("none": no codec)
  cpc,           \* position of the codec exercise
  arg,           \* the Python value handed to db_value
  stored,        \* the value held by the column
  loaded,        \* the Python value python_value returned
  cexc           \* the exception the codec raised ("none": it returned)

vars == << user_version, present, madeBy, rows, deferred, closed, conn,
           handles, pc, caller, version, i, entry, last,
           field, cpc, arg, stored, loaded, cexc >>

codec == << field, cpc, arg, stored, loaded, cexc >>

store == << user_version, present, madeBy, rows >>
handle == << deferred, closed, conn >>

NoEntry == [ marker |-> 0, present |-> {}, rows |-> [ t \in TableNames |-> {} ] ]

database == << user_version, present, madeBy, rows, deferred, closed, conn,
               handles, pc, caller, version, i, entry, last >>

Unset == [ t |-> "unset" ]

NoCall == [ op |-> "none", exc |-> "none", was_closed |-> FALSE ]

Held(r) == UNION { r[t] : t \in TableNames }

\* Rows are numbered as they are written: the next row takes the first free id.
NextRowId(r) == CHOOSE k \in RowIds : k \notin Held(r) /\ \A j \in 1..(k - 1) : j \in Held(r)

\* ------------------------------------------------------------------ Init
\* The process has just started: db is deferred (SqliteDatabase(None)), no
\* Database object exists.  The file is either absent (marker 0, no table) or
\* was left by a completed run of the release `v`.
InitDatabase ==
  /\ \E v \in StoredVersions :
       \E fresh \in BOOLEAN :
         \E f \in [ RowIds -> TableNames ] :
           \E n \in 0..MaxRows :
             /\ fresh => (v = 0 /\ n = 0)
             /\ user_version = v
             /\ present = IF fresh THEN {} ELSE TableNames
             /\ madeBy = [ t \in TableNames |-> IF fresh THEN 0 ELSE v ]
             /\ rows = [ t \in TableNames |-> { k \in 1..n : f[k] = t } ]
  /\ deferred = TRUE
  /\ closed = TRUE
  /\ conn = 0
  /\ handles = 0
  /\ pc = "idle"
  /\ caller = "none"
  /\ version = 0
  /\ i = 0
  /\ entry = NoEntry
  /\ last = NoCall

InitNoCodec ==
  /\ field = "none"
  /\ cpc = "off"
  /\ arg = Unset
  /\ stored = Unset
  /\ loaded = Unset
  /\ cexc = "none"

Init == InitDatabase /\ InitNoCodec

\* ------------------------------------------------------------ the caller
\* A call ends and becomes the last call.
Ended(op, exc) == last' = [ op |-> op, exc |-> exc, was_closed |-> FALSE ]

\* peewee's get_conn(): execute_sql connects when the connection is closed.
CanConnect == closed => conn < MaxConns

GetConn ==
  IF closed
  THEN closed' = FALSE /\ conn' = conn + 1
  ELSE UNCHANGED << closed, conn >>

\* ------------------------------------------------------ Database.__init__
\* db.init(path); db.connect(); then create_database().  connect() on a
\* connection that is already open either raises OperationalError (peewee
\* releases that refuse it) or replaces the connection (releases that do not).
Open ==
  /\ pc = "idle"
  /\ deferred' = FALSE
  /\ \/ /\ closed
        /\ conn < MaxConns
        /\ closed' = FALSE
        /\ conn' = conn + 1
        /\ pc' = "version"
        /\ caller' = "init"
        /\ UNCHANGED last
     \/ /\ ~closed
        /\ conn < MaxConns
        /\ conn' = conn + 1
        /\ pc' = "version"
        /\ caller' = "init"
        /\ UNCHANGED << closed, last >>
     \/ /\ ~closed
        /\ Ended("Database", "OperationalError")
        /\ UNCHANGED << closed, conn, pc, caller >>
  /\ UNCHANGED << store, handles, version, i, entry >>
  /\ UNCHANGED codec

\* Database.create_database() called on its own (it is a staticmethod).
CallCreateDatabase ==
  /\ pc = "idle"
  /\ ~deferred
  /\ CanConnect
  /\ GetConn
  /\ pc' = "version"
  /\ caller' = "static"
  /\ UNCHANGED << store, deferred, handles, version, i, entry, last >>
  /\ UNCHANGED codec

\* ------------------------------------------------ Database.create_database
\* Mutant: only a store older than the code is reset.
MismatchOlderOnly(v) == v < SCHEMA_VERSION

\* Mutant: the tables are recreated on every start.
MismatchAlways(v) == TRUE

Mismatch(v) == v # SCHEMA_VERSION

\* Mutant: the marker is bumped without dropping the old tables.
GetUserVersionNoDrop ==
  /\ pc = "version"
  /\ version' = user_version
  /\ entry' = [ marker |-> user_version, present |-> present, rows |-> rows ]
  /\ IF user_version # SCHEMA_VERSION
     THEN pc' = "set_version" /\ i' = 0
     ELSE pc' = "create" /\ i' = 1
  /\ UNCHANGED << store, handle, handles, caller, last >>
  /\ UNCHANGED codec

\* version = Database._get_user_version(); if version != SCHEMA_VERSION
GetUserVersion ==
  /\ pc = "version"
  /\ version' = user_version
  /\ entry' = [ marker |-> user_version, present |-> present, rows |-> rows ]
  /\ IF Mismatch(user_version)
     THEN pc' = "drop" /\ i' = Len(tables)
     ELSE pc' = "create" /\ i' = 1
  /\ UNCHANGED << store, handle, handles, caller, last >>
  /\ UNCHANGED codec

\* The exception of a failed statement leaves create_database and, through
\* __init__, the caller: nothing catches it, nothing closes the connection.
Raise(exc) ==
  /\ pc' = "idle"
  /\ Ended(IF caller = "init" THEN "Database" ELSE "create_database", exc)
  /\ caller' = "none"
  /\ version' = 0
  /\ i' = 0
  /\ entry' = NoEntry

\* DROP TABLE IF EXISTS t
DropTable(t) ==
  /\ present' = present \ {t}
  /\ rows' = [ rows EXCEPT ![t] = {} ]
  /\ madeBy' = [ madeBy EXCEPT ![t] = 0 ]

\* db.drop_tables(tables, safe=True): one statement per table, last first.
DropTables ==
  /\ pc = "drop"
  /\ \/ /\ DropTable(tables[i])
        /\ IF i = 1
           THEN pc' = "set_version" /\ i' = 0
           ELSE pc' = pc /\ i' = i - 1
        /\ UNCHANGED << user_version, caller, version, entry, last >>
     \/ /\ Raise("OperationalError")
        /\ UNCHANGED store
  /\ UNCHANGED << handle, handles >>
  /\ UNCHANGED codec

\* Mutant: the marker is written back as it was read.
SetUserVersionAsRead ==
  /\ pc = "set_version"
  /\ user_version' = version
  /\ pc' = "create"
  /\ i' = 1
  /\ UNCHANGED << present, madeBy, rows, handle, handles, caller, version,
                  entry, last >>
  /\ UNCHANGED codec

\* Database._set_user_version(Database.SCHEMA_VERSION)
SetUserVersion ==
  /\ pc = "set_version"
  /\ user_version' = SCHEMA_VERSION
  /\ pc' = "create"
  /\ i' = 1
  /\ UNCHANGED << present, madeBy, rows, handle, handles, caller, version,
                  entry, last >>
  /\ UNCHANGED codec

\* CREATE TABLE IF NOT EXISTS t
CreateTable(t) ==
  IF t \in present
  THEN UNCHANGED << present, rows, madeBy >>
  ELSE /\ present' = present \cup {t}
       /\ rows' = [ rows EXCEPT ![t] = {} ]
       /\ madeBy' = [ madeBy EXCEPT ![t] = SCHEMA_VERSION ]

\* db.create_tables(tables, safe=True): one statement per table.
CreateTables ==
  /\ pc = "create"
  /\ \/ /\ CreateTable(tables[i])
        /\ IF i = Len(tables)
           THEN pc' = "ret" /\ i' = 0
           ELSE pc' = pc /\ i' = i + 1
        /\ UNCHANGED << user_version, caller, version, entry, last >>
     \/ /\ Raise("OperationalError")
        /\ UNCHANGED store
  /\ UNCHANGED << handle, handles >>
  /\ UNCHANGED codec

\* create_database returns; when __init__ called it, the Database object is
\* handed to the caller.
Return ==
  /\ pc = "ret"
  /\ pc' = "idle"
  /\ handles' = IF caller = "init" THEN handles + 1 ELSE handles
  /\ Ended(IF caller = "init" THEN "Database" ELSE "create_database",
                   "none")
  /\ caller' = "none"
  /\ version' = 0
  /\ i' = 0
  /\ entry' = NoEntry
  /\ UNCHANGED << store, handle >>
  /\ UNCHANGED codec

\* ---------------------------------------------------------- Database.close
\* Mutant: the test of is_closed() is inverted.
CloseInverted ==
  /\ pc = "idle"
  /\ handles > 0
  /\ IF closed THEN closed' = TRUE ELSE UNCHANGED closed
  /\ last' = [ op |-> "close", exc |-> "none", was_closed |-> closed ]
  /\ UNCHANGED << store, deferred, conn, handles, pc, caller, version, i,
                  entry >>
  /\ UNCHANGED codec

Close ==
  /\ pc = "idle"
  /\ handles > 0
  /\ IF ~closed THEN closed' = TRUE ELSE UNCHANGED closed
  /\ last' = [ op |-> "close", exc |-> "none", was_closed |-> closed ]
  /\ UNCHANGED << store, deferred, conn, handles, pc, caller, version, i,
                  entry >>
  /\ UNCHANGED codec

\* ------------------------------------------------------- the entity models
\* Every model is bound to the module-level db (BaseModel.Meta.database), not
\* to a Database object: a query runs once db has a path, and fails when the
\* table is missing.
Insert(t) ==
  /\ pc = "idle"
  /\ ~deferred
  /\ CanConnect
  /\ GetConn
  /\ IF t \in present
     THEN /\ Cardinality(Held(rows)) < MaxRows
          /\ rows' = [ rows EXCEPT ![t] = @ \cup { NextRowId(rows) } ]
          /\ Ended("insert", "none")
     ELSE /\ Ended("insert", "OperationalError")
          /\ UNCHANGED rows
  /\ UNCHANGED << user_version, present, madeBy, deferred, handles, pc,
                  caller, version, i, entry >>
  /\ UNCHANGED codec

\* ------------------------------------------------------------ the process
\* The process ends, at any point of create_database or between calls; the
\* file stays as it is, the next process starts with the module freshly
\* imported.
Interrupt ==
  /\ ~deferred
  /\ deferred' = TRUE
  /\ closed' = TRUE
  /\ conn' = 0
  /\ handles' = 0
  /\ pc' = "idle"
  /\ caller' = "none"
  /\ version' = 0
  /\ i' = 0
  /\ entry' = NoEntry
  /\ last' = NoCall
  /\ UNCHANGED store
  /\ UNCHANGED codec

\* ------------------------------------------------------- Python values
\* An int is its sign and its magnitude in binary, most significant bit first,
\* without leading zeros (0 is the empty magnitude): Python ints have no width.
PyNone == [ t |-> "NoneType" ]
PyInt(neg, bits) == [ t |-> "int", neg |-> neg, bits |-> bits ]
PyStr(chars) == [ t |-> "str", chars |-> chars ]
PyFloat(repr) == [ t |-> "float", repr |-> repr ]
PyEnum(cls, name) == [ t |-> "enum", cls |-> cls, name |-> name ]

Returned(v) == [ exc |-> "none", val |-> v ]
Raised(e) == [ exc |-> e, val |-> Unset ]

RECURSIVE Strip(_)
Strip(bits) ==
  IF bits # << >> /\ Head(bits) = 0 THEN Strip(Tail(bits)) ELSE bits

RECURSIVE NatBits(_)
NatBits(n) == IF n = 0 THEN << >> ELSE Append(NatBits(n \div 2), n % 2)

Pow2(n) == << 1 >> \o [ k \in 1..n |-> 0 ]
Ones(n) == [ k \in 1..n |-> 1 ]

\* ---------------------------------------------------- format(value, 'x')
HexDigits ==
  << "0", "1", "2", "3", "4", "5", "6", "7",
     "8", "9", "a", "b", "c", "d", "e", "f" >>

PadToNibbles(bits) ==
  IF Len(bits) % 4 = 0
  THEN bits
  ELSE [ k \in 1..(4 - (Len(bits) % 4)) |-> 0 ] \o bits

NibbleAt(b, k) ==
  8 * b[4 * k - 3] + 4 * b[4 * k - 2] + 2 * b[4 * k - 1] + b[4 * k]

ToHex(bits) ==
  IF bits = << >>
  THEN << "0" >>
  ELSE LET b == PadToNibbles(bits)
       IN  [ k \in 1..(Len(b) \div 4) |-> HexDigits[NibbleAt(b, k) + 1] ]

\* Mutant: the value goes through a 64-bit integer on its way to the column.
FormatX64(v) ==
  LET low == IF Len(v.bits) > 64
             THEN Strip(SubSeq(v.bits, Len(v.bits) - 63, Len(v.bits)))
             ELSE v.bits
  IN  PyStr((IF v.neg THEN << "-" >> ELSE << >>) \o ToHex(low))

\* format(value, 'x') of an int: sign, then the hex digits, no prefix, no width.
FormatX(v) == PyStr((IF v.neg THEN << "-" >> ELSE << >>) \o ToHex(v.bits))

\* ------------------------------------------------------------ int(s, 16)
\* The value of a hex digit, either case; 16 for any other character.
DigitValue(c) ==
  CASE c = "0" -> 0  [] c = "1" -> 1  [] c = "2" -> 2  [] c = "3" -> 3
    [] c = "4" -> 4  [] c = "5" -> 5  [] c = "6" -> 6  [] c = "7" -> 7
    [] c = "8" -> 8  [] c = "9" -> 9
    [] c \in { "a", "A" } -> 10  [] c \in { "b", "B" } -> 11
    [] c \in { "c", "C" } -> 12  [] c \in { "d", "D" } -> 13
    [] c \in { "e", "E" } -> 14  [] c \in { "f", "F" } -> 15
    [] OTHER -> 16

NibbleBits(v) == << v \div 8, (v \div 4) % 2, (v \div 2) % 2, v % 2 >>

FromHex(chars) ==
  Strip([ k \in 1..(4 * Len(chars)) |->
            NibbleBits(DigitValue(chars[(k + 3) \div 4]))[((k - 1) % 4) + 1] ])

\* int(s, 16) of a str: an optional sign, an optional 0x, one or more hex
\* digits; anything else is a ValueError.  (Blanks and underscores, which
\* int() also reads, are not in the alphabet the strings are drawn from.)
IntBase16(chars) ==
  LET signed == Len(chars) > 0 /\ chars[1] \in { "-", "+" }
      unsigned == IF signed THEN Tail(chars) ELSE chars
      prefixed == /\ Len(unsigned) >= 2
                  /\ unsigned[1] = "0"
                  /\ unsigned[2] \in { "x", "X" }
      digits == IF prefixed THEN SubSeq(unsigned, 3, Len(unsigned)) ELSE unsigned
      bits == FromHex(digits)
  IN  IF Len(digits) > 0 /\ \A k \in 1..Len(digits) : DigitValue(digits[k]) < 16
      THEN Returned(PyInt(signed /\ chars[1] = "-" /\ bits # << >>, bits))
      ELSE Raised("ValueError")

\* -------------------------------------------------------- BigIntegerField
BigIntegerField_db_value(value) ==
  IF value.t # "int"
  THEN Raised("TypeError")
  ELSE Returned(FormatX(value))

\* Mutant: `if value:` in place of `if value is not None:`.
BigIntegerField_python_value_truthy(value) ==
  IF value # PyNone /\ value # PyStr(<< >>)
  THEN IF value.t = "str" THEN IntBase16(value.chars) ELSE Raised("TypeError")
  ELSE Returned(PyNone)

\* int(value, 16) takes a str: any other type is a TypeError.
BigIntegerField_python_value(value) ==
  IF value # PyNone
  THEN IF value.t = "str" THEN IntBase16(value.chars) ELSE Raised("TypeError")
  ELSE Returned(PyNone)

\* ------------------------------------------------- PaymentStatus, EnumField
PaymentStatus == [ awaiting |-> 1, sent |-> 2, confirmed |-> 3 ]

Members == { PyEnum("PaymentStatus", n) : n \in DOMAIN PaymentStatus }

MemberValue(m) == PyInt(FALSE, NatBits(PaymentStatus[m.name]))

\* PaymentStatus(value): the member itself, or the member with that value.
EnumCall(value) ==
  IF value \in Members
  THEN Returned(value)
  ELSE IF \E m \in Members : MemberValue(m) = value
       THEN Returned(CHOOSE m \in Members : MemberValue(m) = value)
       ELSE Raised("ValueError")

EnumField_db_value(value) ==
  IF value \notin Members
  THEN Raised("TypeError")
  ELSE Returned(MemberValue(value))

\* Mutant: an ordinal without a member is read as the default member.
EnumField_python_value_default(value) ==
  IF EnumCall(value).exc = "none"
  THEN EnumCall(value)
  ELSE Returned(PyEnum("PaymentStatus", "awaiting"))

EnumField_python_value(value) == EnumCall(value)

\* ------------------------------------------------------ the codec exercise
Chars == { "0", "4", "a", "F", "g", "-", "x" }

Strings == UNION { [ 1..n -> Chars ] : n \in 0..MaxChars }

SmallInts ==
  { PyInt(neg, bits) :
      neg \in BOOLEAN,
      bits \in { b \in UNION { [ 1..n -> { 0, 1 } ] : n \in 0..MaxBits } :
                   b = Strip(b) } } \ { PyInt(TRUE, << >>) }

\* 2^63 - 1, 2^63, 2^64, 2^70, 2^256 - 1, 2^256
BigInts ==
  { PyInt(FALSE, Ones(63)), PyInt(FALSE, Pow2(63)), PyInt(FALSE, Pow2(64)),
    PyInt(FALSE, Pow2(70)), PyInt(FALSE, Ones(256)), PyInt(FALSE, Pow2(256)) }

NonInts ==
  { PyNone, PyFloat("1.0"), PyEnum("OtherEnum", "sent") }
    \cup { PyStr(c) : c \in { << >>, << "4" >>, << "a", "F" >> } }

Args == SmallInts \cup BigInts \cup NonInts \cup Members

\* What a column may hold when it is read without a write of this exercise.
Columns == { PyNone } \cup { PyStr(c) : c \in Strings } \cup SmallInts

InitCodec ==
  /\ user_version = 0
  /\ present = {}
  /\ madeBy = [ t \in TableNames |-> 0 ]
  /\ rows = [ t \in TableNames |-> {} ]
  /\ deferred = TRUE
  /\ closed = TRUE
  /\ conn = 0
  /\ handles = 0
  /\ pc = "idle"
  /\ caller = "none"
  /\ version = 0
  /\ i = 0
  /\ entry = NoEntry
  /\ last = NoCall
  /\ field \in { "BigIntegerField", "EnumField" }
  /\ \/ arg \in Args /\ stored = Unset /\ cpc = "arg"
     \/ arg = Unset /\ stored \in Columns /\ cpc = "stored"
  /\ loaded = Unset
  /\ cexc = "none"

\* The field's db_value is applied to the value being written.
Encode(r) ==
  /\ cpc = "arg"
  /\ IF r.exc = "none"
     THEN stored' = r.val /\ cpc' = "stored" /\ UNCHANGED cexc
     ELSE cexc' = r.exc /\ cpc' = "raised" /\ UNCHANGED stored
  /\ UNCHANGED << field, arg, loaded, database >>

\* The field's python_value is applied to the value being read.
Decode(r) ==
  /\ cpc = "stored"
  /\ IF r.exc = "none"
     THEN loaded' = r.val /\ cpc' = "loaded" /\ UNCHANGED cexc
     ELSE cexc' = r.exc /\ cpc' = "raised" /\ UNCHANGED loaded
  /\ UNCHANGED << field, arg, stored, database >>

BigIntegerEncode ==
  field = "BigIntegerField" /\ Encode(BigIntegerField_db_value(arg))

BigIntegerDecode ==
  field = "BigIntegerField" /\ Decode(BigIntegerField_python_value(stored))

EnumEncode ==
  field = "EnumField" /\ Encode(EnumField_db_value(arg))

EnumDecode ==
  field = "EnumField" /\ Decode(EnumField_python_value(stored))

NextCodec ==
  \/ BigIntegerEncode
  \/ BigIntegerDecode
  \/ EnumEncode
  \/ EnumDecode

SpecCodec == InitCodec /\ [][NextCodec]_vars

Next ==
  \/ Open
  \/ CallCreateDatabase
  \/ GetUserVersion
  \/ DropTables
  \/ SetUserVersion
  \/ CreateTables
  \/ Return
  \/ Close
  \/ \E t \in TableNames : Insert(t)
  \/ Interrupt

Spec == Init /\ [][Next]_vars

\* ------------------------------------------------------------ properties
InRun == pc \in { "drop", "set_version", "create", "ret" }

NoRows == \A t \in TableNames : rows[t] = {}

\* The schema of this release is in place: marker and every managed table.
Reconciled ==
  /\ user_version = SCHEMA_VERSION
  /\ present = TableNames
  /\ \A t \in TableNames : madeBy[t] = SCHEMA_VERSION

RunEnded(c) == c.op \in { "Database", "create_database" } /\ c.exc = "none"

\* C1: a run of create_database that found a marker other than SCHEMA_VERSION
\* and has completed leaves no row in any of the managed tables and the marker
\* at SCHEMA_VERSION.
C1_ResetOnMismatch ==
  (pc = "ret" /\ entry.marker # SCHEMA_VERSION)
    => (NoRows /\ Cardinality(TableNames) = 12 /\ user_version = SCHEMA_VERSION)

\* C1 witness: a store of a later release that held rows has been reset.
C1_Witness ==
  /\ pc = "ret"
  /\ entry.marker > SCHEMA_VERSION
  /\ Held(entry.rows) # {}
  /\ NoRows
  /\ user_version = SCHEMA_VERSION

\* C2: a run of create_database that directly follows a completed run never
\* reaches the drop or the marker write, and at its end the marker, the
\* tables and every row are as the run found them.
C2_SecondRunKeepsAll ==
  (InRun /\ RunEnded(last))
    => /\ pc \notin { "drop", "set_version" }
       /\ user_version = entry.marker
       /\ present = entry.present
       /\ rows = entry.rows

\* C2 witness: the second run in a row has completed over a store with rows.
C2_Witness ==
  /\ pc = "ret"
  /\ RunEnded(last)
  /\ Held(entry.rows) # {}
  /\ rows = entry.rows

\* C3 (as claimed): the marker reads SCHEMA_VERSION, the one version this
\* code writes, only when the managed tables of SCHEMA_VERSION have been
\* created (once created they are never dropped under that marker).
C3_MarkerAfterCreate ==
  user_version = SCHEMA_VERSION => Reconciled

\* C3 (amended): in every reachable state, failed and interrupted runs
\* included, every managed table that exists was created by the code of the
\* version the marker reads: the marker is written only once all tables of
\* the other version are dropped, and before the new ones are created.
C3_MarkerAfterDrop ==
  \A t \in present : madeBy[t] = user_version

\* C3 witness: the create step failed part-way: the marker reads
\* SCHEMA_VERSION and some managed tables are missing.
C3_Witness ==
  /\ pc = "idle"
  /\ last.exc = "OperationalError"
  /\ last.op = "Database"
  /\ user_version = SCHEMA_VERSION
  /\ present # {}
  /\ present # TableNames

\* C4: once Database(datadir) has returned, the marker reads SCHEMA_VERSION
\* and every managed table exists with the schema of this release; when the
\* store was fresh the tables are empty at the return.
C4_OpenPostcondition ==
  /\ (handles > 0 \/ (pc = "ret" /\ caller = "init")) => Reconciled
  /\ (pc = "ret" /\ caller = "init" /\ entry.marker = 0 /\ entry.present = {})
       => NoRows

\* C4 witness: Database(datadir) is returning over a store that was fresh.
C4_Witness ==
  /\ pc = "ret"
  /\ caller = "init"
  /\ entry.marker = 0
  /\ entry.present = {}
  /\ Reconciled
  /\ NoRows

\* C5 (as claimed): Database(datadir) constructed while a Database object
\* exists and the connection is open does not fail and leaves the connection
\* the one it was.
C5_OpenIdempotent ==
  [][ (handles > 0 /\ ~closed /\ Open)
        => (conn' = conn /\ last'.exc = "none") ]_vars

\* C6: close() leaves the connection closed and raises nothing; on a handle
\* that is closed already it changes neither the store nor the handle.
C6_CloseIdempotent ==
  [][ (pc = "idle" /\ pc' = "idle" /\ last'.op = "close")
        => /\ closed'
           /\ last'.exc = "none"
           /\ closed => UNCHANGED << store, handle, handles >> ]_vars

\* C6 witness: close() has run on a handle that was closed already.
C6_Witness ==
  /\ last.op = "close"
  /\ last.was_closed
  /\ closed
  /\ handles > 0

\* C7 (as claimed): an entity access that succeeds is made through a
\* Database object that was produced, against a reconciled store; after a
\* failed drop or create step neither exists.
C7_FailureIsFatal ==
  (last.op = "insert" /\ last.exc = "none") => (handles > 0 /\ Reconciled)

\* C8: a non-negative int written through BigIntegerField.db_value and read
\* back through BigIntegerField.python_value is the same int, whatever its
\* size (2^63 - 1, 2^63, 2^64, 2^70, 2^256 - 1 and 2^256 included), and
\* neither step raises.
C8_BigIntegerRoundTrip ==
  (field = "BigIntegerField" /\ arg.t = "int" /\ ~arg.neg)
    => /\ cexc = "none"
       /\ cpc = "loaded" => loaded = arg

\* C8 witness: 2^70 was stored as 4 followed by seventeen 0 and read back.
C8_Witness ==
  /\ field = "BigIntegerField"
  /\ cpc = "loaded"
  /\ arg = PyInt(FALSE, Pow2(70))
  /\ stored = PyStr(<< "4" >> \o [ k \in 1..17 |-> "0" ])
  /\ loaded = arg

\* C9 (as claimed): db_value raises TypeError for every value that is not an
\* int and stores nothing; python_value returns None for None and the empty
\* string for the empty string, without raising.
C9_AbsenceIsIdentity ==
  field = "BigIntegerField"
    => /\ (arg # Unset /\ arg.t # "int" /\ cpc # "arg")
            => (cpc = "raised" /\ cexc = "TypeError" /\ stored = Unset)
       /\ (arg = Unset /\ stored \in { PyNone, PyStr(<< >>) } /\ cpc # "stored")
            => (cpc = "loaded" /\ cexc = "none" /\ loaded = stored)

\* C9 (amended): db_value raises TypeError for every value that is not an
\* int and stores nothing; python_value returns None for None without
\* raising, and raises ValueError for the empty string.
C9_NoneIsIdentity ==
  field = "BigIntegerField"
    => /\ (arg # Unset /\ arg.t # "int" /\ cpc # "arg")
            => (cpc = "raised" /\ cexc = "TypeError" /\ stored = Unset)
       /\ (arg = Unset /\ stored = PyNone /\ cpc # "stored")
            => (cpc = "loaded" /\ cexc = "none" /\ loaded = PyNone)
       /\ (arg = Unset /\ stored = PyStr(<< >>) /\ cpc # "stored")
            => (cpc = "raised" /\ cexc = "ValueError" /\ loaded = Unset)

\* C9 witness: python_value has raised ValueError on the empty string.
C9_Witness ==
  /\ field = "BigIntegerField"
  /\ arg = Unset
  /\ stored = PyStr(<< >>)
  /\ cpc = "raised"
  /\ cexc = "ValueError"

\* C10: a PaymentStatus member written through EnumField.db_value is stored
\* as its value and read back as the same member; db_value raises TypeError
\* for anything that is not a member; python_value raises ValueError for a
\* column value, None included, that is the value of no member.
C10_EnumCodec ==
  field = "EnumField"
    => /\ arg \in Members
            => /\ cexc = "none"
               /\ cpc \in { "stored", "loaded" }
                    => stored = PyInt(FALSE, NatBits(PaymentStatus[arg.name]))
               /\ cpc = "loaded" => loaded = arg
       /\ (arg # Unset /\ arg \notin Members /\ cpc # "arg")
            => (cpc = "raised" /\ cexc = "TypeError" /\ stored = Unset)
       /\ ( /\ arg = Unset
            /\ cpc # "stored"
            /\ \A n \in DOMAIN PaymentStatus :
                 stored # PyInt(FALSE, NatBits(PaymentStatus[n])) )
            => (cpc = "raised" /\ cexc = "ValueError" /\ loaded = Unset)

\* C10 witness: PaymentStatus.sent was stored as 2 and read back.
C10_Witness ==
  /\ field = "EnumField"
  /\ arg = PyEnum("PaymentStatus", "sent")
  /\ stored = PyInt(FALSE, << 1, 0 >>)
  /\ cpc = "loaded"
  /\ loaded = arg

====
